---- MODULE Spec2Model ----
\* CallGuard: the session channel (CommunicationService), the background
\* orchestrator (CallGuardBackground) that drives it with its audio capture
\* (SimpleAudioProcessor), and the audio analysis components
\* (EnhancedAudioProcessor, RealTimePersuasionDetector, the popup's risk
\* display).
EXTENDS Integers, Sequences, FiniteSets, Bags, TLC

\* ------------------------------------------------------------------ bounds
\* connection attempts that can be in progress at once: WebSocket objects
\* alive (connecting, open or closing), pending reconnect timers and connect()
\* calls awaiting the configuration
MaxPending == 2
\* startProtection invocations that can be suspended at an await at once
MaxCalls == 1
\* bins of the analyser (frequencyBinCount)
MaxBins == 3
\* animation-frame callbacks of analyzeFrame that can be requested at once
MaxLoops == 2
\* samples (frames times channels) of an AudioBuffer
MaxSamples == 4
\* risk_score / audio_chunk messages accepted on one socket
MaxSent == 1
\* the latest Date.now() reading, in milliseconds since the first
MaxClock == 1
\* bulk captures started on one EnhancedAudioProcessor
MaxCaptures == 2
\* startVoiceIntensityMonitoring calls made on one SimpleAudioProcessor
MaxMonitors == 2

\* ------------------------------------------------------- program constants
maxReconnectAttempts == 5
reconnectDelay == 1000

\* Math.min(100, riskScore): the ceiling of a risk score
ScoreCeiling == 100
\* samples >= 30: the length of the call detector's window
Window == 30

\* byte values of the analyser's frequency and time-domain data (128 is the
\* zero level of the time domain)
FrequencyLevels == {0, 200}
TimeLevels == {0, 128}
\* sums of one reading of the byte frequency data
EnergyLevels == {0, 50, 150}
\* sample values in units of 1 / 0x8000, some beyond [-1, 1]
SampleValues == {-40000, -32768, 0, 16384, 32767, 40000}
SampleRates == {16000, 44100}

\* the history counters stop counting one past the retry budget
CountCap == maxReconnectAttempts + 1

HandledTypes == {"risk_alert", "session_update", "full_report_ready"}
DataValues == {"d1", "d2"}
\* what event.data of an inbound frame can be: text that JSON.parse rejects,
\* the JSON text null, a JSON object without a type field, a JSON object with
\* a type field (one of the three handled tags or another tag)
Payloads ==
    {[kind |-> "garbage", type |-> "none", data |-> "none"],
     [kind |-> "null", type |-> "none", data |-> "none"],
     [kind |-> "object", type |-> "undefined", data |-> "d1"]}
    \cup {[kind |-> "object", type |-> "ping", data |-> "d1"]}
    \cup [kind : {"object"}, type : HandledTypes, data : DataValues]

VARIABLES
    sessionId,          \* CommunicationService.sessionId
    websocket,          \* CommunicationService.websocket: the WebSocket it references
    orphans,            \* live WebSocket objects the service no longer references
    isConnected,        \* CommunicationService.isConnected
    reconnectAttempts,  \* CommunicationService.reconnectAttempts
    timers,             \* pending setTimeout callbacks of attemptReconnect
    isActive,           \* CallGuardBackground.isActive
    calls,              \* startProtection invocations suspended at an await
    relayed,            \* chrome.runtime.sendMessage calls made by the step just taken
    execSinceOpen,      \* history: reconnects run since the last open event that an
                        \*   unexpected close had scheduled
    closesSinceOpen,    \* history: close events handled since the last open event
    unexpectedSinceOpen,
                        \* history: those of them no disconnect() had asked for
    last,               \* history: the step just taken
    installed,          \* the onInstalled / onStartup event has been handled
    audioProcessor,     \* SimpleAudioProcessor: mediaRecorder, isRecording, intensityInterval
    media,              \* the MediaStreamTracks obtained for it
    features,           \* the FeatureVector handed to the detector and the scorer
    persuasionCues,     \* the cue set handed to the scorer
    score,              \* the risk score handed to the popup
    processor,          \* EnhancedAudioProcessor: isRecording, lastFrequencyData, frame callbacks
    frame,              \* the analyser's current byte frequency / time-domain data
    buffer,             \* the AudioBuffer handed to audioBufferToWav
    sampling,           \* analyzeCallCharacteristics: the locals of its sampling closure
    bulk,               \* EnhancedAudioProcessor.mediaRecorder and the MediaRecorders of
                        \*   startCallRecording, each with its ceiling timer and its flow
    analyzer            \* VoiceCallAnalyzer: recorders, isRecording, chunks, intervals

captureVars == <<audioProcessor, media>>
webVars == <<bulk, analyzer>>
analysisVars == <<features, persuasionCues, score, processor, frame, buffer, sampling, webVars>>

vars == <<sessionId, websocket, orphans, isConnected, reconnectAttempts, timers,
          isActive, calls, relayed, execSinceOpen, closesSinceOpen,
          unexpectedSinceOpen, last, installed, captureVars, analysisVars>>

chanVars == <<websocket, orphans, isConnected, reconnectAttempts, timers>>
histVars == <<execSinceOpen, closesSinceOpen, unexpectedSinceOpen>>

\* a WebSocket object: readyState, whether its open event has fired, and the
\* frames transmitted on it; Null stands for the null reference
Null == [readyState |-> "NULL", opened |-> FALSE, sent |-> <<>>]
NewWebSocket == [readyState |-> "CONNECTING", opened |-> FALSE, sent |-> <<>>]

Count(n) == IF n < CountCap THEN n + 1 ELSE CountCap

Step(op, res, arg, sock) == [op |-> op, res |-> res, arg |-> arg, sock |-> sock]
NoRelay == relayed' = <<>>

IsLive(sock) == sock.readyState \in {"CONNECTING", "OPEN", "CLOSING"}
Orphaned(sock) == IF IsLive(sock) THEN SetToBag({sock}) ELSE EmptyBag
LiveCount == BagCardinality(orphans) + (IF IsLive(websocket) THEN 1 ELSE 0)
Pending == LiveCount + BagCardinality(timers) + calls.cfg
CanRequest == Pending < MaxPending

\* the sockets an event can fire on: the referenced one or an orphan
Targets == {<<"current", websocket>>} \cup {<<"orphan", o>> : o \in BagToSet(orphans)}

generateSessionId == "ext_1"
\* a BackendMessage: sessionId: this.sessionId
Message_PerConnection(type) ==
    [type |-> type,
     sessionId |-> IF type = "session_start" THEN "ext_2" ELSE sessionId]
Message(type) == [type |-> type, sessionId |-> sessionId]

\* ------------------------------------------------- CommunicationService
\* sendMessage: transmit on this.websocket when it is OPEN, else warn
CanTransmit(ws) == ws.readyState = "OPEN"

sendMessage(ws, msg) ==
    IF CanTransmit(ws) THEN [ws EXCEPT !.sent = Append(@, msg)] ELSE ws

\* attemptReconnect(): the guard and the timeout
ShouldReconnect_Always(n) == TRUE
ShouldReconnect_OffByOne(n) == n <= maxReconnectAttempts
ShouldReconnect(n) == n < maxReconnectAttempts
BackoffDelay_Constant(n) == reconnectDelay
BackoffDelay(n) == reconnectDelay * n

\* WebSocket.close()
close(sock) ==
    IF sock.readyState \in {"CONNECTING", "OPEN"}
    THEN [sock EXCEPT !.readyState = "CLOSING"]
    ELSE sock

\* every timer pending at a disconnect() is remembered as such
MarkStale(ts) ==
    LET S == BagToSet(ts)
        T == {[u EXCEPT !.stale = TRUE] : u \in S}
        n(t) == CopiesIn(t, ts) + CopiesIn([t EXCEPT !.stale = FALSE], ts)
    IN [t \in T |-> n(t)]

\* ------------------------------------------------- JavaScript numbers
\* a non-negative quotient n / d is kept exact, in lowest terms; the result
\* of Math.sqrt is kept as its radicand, and compared through its square
RECURSIVE GCD(_, _)
GCD(a, b) == IF b = 0 THEN a ELSE GCD(b, a % b)
Frac(n, d) == [num |-> n \div GCD(n, d), den |-> d \div GCD(n, d)]
Zero == Frac(0, 1)
Sqrt(q) == [sq |-> q]
Gt(q, n, d) == q.num * d > n * q.den
Lt(q, n, d) == q.num * d < n * q.den
SqrtGt(r, n, d) == Gt(r.sq, n * n, d * d)
SqrtLt(r, n, d) == Lt(r.sq, n * n, d * d)
Min(a, b) == IF a < b THEN a ELSE b
Max(a, b) == IF a > b THEN a ELSE b
Least(S) == CHOOSE k \in S : \A j \in S : k <= j

RECURSIVE SumSeq(_)
SumSeq(s) == IF s = <<>> THEN 0 ELSE Head(s) + SumSeq(Tail(s))

\* ------------------------------------------------- EnhancedAudioProcessor
\* the feature calculators; frequencyData and timeData are Uint8Arrays, and
\* index i of the code is k - 1 here
calculateSpectralCentroid(frequencyData) ==
    LET weightedSum == SumSeq([k \in 1 .. Len(frequencyData) |-> (k - 1) * frequencyData[k]])
        sum == SumSeq(frequencyData)
    IN IF sum > 0 THEN Frac(weightedSum, sum) ELSE Zero

calculateSpectralRolloff(frequencyData) ==
    LET totalSum == SumSeq(frequencyData)
        reached == {k \in 1 .. Len(frequencyData) :
                       100 * SumSeq(SubSeq(frequencyData, 1, k)) >= 85 * totalSum}
    IN IF reached # {} THEN Frac(Least(reached) - 1, Len(frequencyData)) ELSE Frac(1, 1)

\* null previousData is the empty sequence
NoFrequencyData == <<>>
calculateSpectralFlux(currentData, previousData) ==
    IF previousData = NoFrequencyData THEN Sqrt(Zero)
    ELSE Sqrt(Frac(SumSeq([k \in 1 .. Len(currentData) |->
                              (currentData[k] - previousData[k]) * (currentData[k] - previousData[k])]), 1))

calculateRMS_Unsigned(timeData) ==
    Sqrt(Frac(SumSeq([k \in 1 .. Len(timeData) |-> timeData[k] * timeData[k]]),
              128 * 128 * Len(timeData)))
calculateRMS(timeData) ==
    Sqrt(Frac(SumSeq([k \in 1 .. Len(timeData) |-> (timeData[k] - 128) * (timeData[k] - 128)]),
              128 * 128 * Len(timeData)))

calculateZeroCrossingRate(timeData) ==
    LET crossings == Cardinality({k \in 2 .. Len(timeData) :
                        \/ (timeData[k] - 128 >= 0 /\ timeData[k - 1] - 128 < 0)
                        \/ (timeData[k] - 128 < 0 /\ timeData[k - 1] - 128 >= 0)})
    IN Frac(crossings, Len(timeData) - 1)

calculateEnergy(frequencyData) ==
    Frac(SumSeq([k \in 1 .. Len(frequencyData) |-> frequencyData[k] * frequencyData[k]]),
         Len(frequencyData))

\* extractRealTimeFeatures: the vector it returns
extractRealTimeFeatures(frequencyData, timeData, lastFrequencyData, now) ==
    [spectralCentroid |-> calculateSpectralCentroid(frequencyData),
     spectralRolloff |-> calculateSpectralRolloff(frequencyData),
     spectralFlux |-> calculateSpectralFlux(frequencyData, lastFrequencyData),
     rms |-> calculateRMS(timeData),
     zeroCrossingRate |-> calculateZeroCrossingRate(timeData),
     energy |-> calculateEnergy(frequencyData),
     timestamp |-> now]

\* the weight of a condition that holds
Weight(holds, w) == IF holds THEN w ELSE 0

\* analyzeStream: confidence += 0.3 / 0.4 / 0.2 for the cues found, in tenths
Confidence_Heavy(urgency, authority, socialProof) ==
    Weight(urgency, 3) + Weight(authority, 9) + Weight(socialProof, 2)
Confidence(urgency, authority, socialProof) ==
    Weight(urgency, 3) + Weight(authority, 4) + Weight(socialProof, 2)

\* RealTimePersuasionDetector.analyzeStream; confidence is in tenths
analyzeStream_Overlap(f, now) ==
    LET urgency == SqrtGt(f.spectralFlux, 40, 1) /\ SqrtGt(f.rms, 7, 10)
        authority == Lt(f.spectralCentroid, 3, 10) /\ SqrtLt(f.spectralFlux, 60, 1)
        socialProof == Gt(f.zeroCrossingRate, 25, 100) /\ Gt(f.spectralRolloff, 7, 10)
    IN [detected |-> urgency \/ authority \/ socialProof,
        urgency |-> urgency, authority |-> authority, socialProof |-> socialProof,
        reciprocity |-> FALSE, commitment |-> FALSE, liking |-> FALSE,
        confidence |-> Weight(urgency, 3) + Weight(authority, 4) + Weight(socialProof, 2),
        timestamp |-> now]
analyzeStream_Voiced(f, now) ==
    LET urgency == SqrtGt(f.spectralFlux, 40, 1) /\ SqrtGt(f.rms, 7, 10)
        authority == Lt(f.spectralCentroid, 3, 10) /\ SqrtLt(f.spectralFlux, 20, 1)
                        /\ SqrtGt(f.rms, 0, 1)
        socialProof == Gt(f.zeroCrossingRate, 25, 100) /\ Gt(f.spectralRolloff, 7, 10)
    IN [detected |-> urgency \/ authority \/ socialProof,
        urgency |-> urgency, authority |-> authority, socialProof |-> socialProof,
        reciprocity |-> FALSE, commitment |-> FALSE, liking |-> FALSE,
        confidence |-> Weight(urgency, 3) + Weight(authority, 4) + Weight(socialProof, 2),
        timestamp |-> now]
analyzeStream(f, now) ==
    LET urgency == SqrtGt(f.spectralFlux, 40, 1) /\ SqrtGt(f.rms, 7, 10)
        authority == Lt(f.spectralCentroid, 3, 10) /\ SqrtLt(f.spectralFlux, 20, 1)
        socialProof == Gt(f.zeroCrossingRate, 25, 100) /\ Gt(f.spectralRolloff, 7, 10)
    IN [detected |-> urgency \/ authority \/ socialProof,
        urgency |-> urgency, authority |-> authority, socialProof |-> socialProof,
        reciprocity |-> FALSE, commitment |-> FALSE, liking |-> FALSE,
        confidence |-> Confidence(urgency, authority, socialProof),
        timestamp |-> now]

\* calculateRealTimeRisk: the weights of the conditions that hold, capped
LoudSpeech_AtLeast(f) == ~SqrtLt(f.rms, 8, 10)
LoudSpeech(f) == SqrtGt(f.rms, 8, 10)
RiskSum(f, c) ==
    Weight(SqrtGt(f.spectralFlux, 50, 1), 15) + Weight(LoudSpeech(f), 10)
        + Weight(Gt(f.zeroCrossingRate, 3, 10), 10)
        + Weight(c.urgency, 25) + Weight(c.authority, 20) + Weight(c.socialProof, 15)
        + Weight(c.reciprocity, 15) + Weight(c.commitment, 10) + Weight(c.liking, 10)
calculateRealTimeRisk_NoCap(f, c) == RiskSum(f, c)
calculateRealTimeRisk(f, c) == Min(100, RiskSum(f, c))

\* startCallRecording after getUserMedia: the MediaRecorder it creates and
\* starts, with the 60 s timeout it sets; onstop has not run
NewRecorder_Uploading ==
    [state |-> "recording", timer |-> TRUE, stopEvent |-> FALSE, flows |-> 1, inflight |-> TRUE]
NewRecorder ==
    [state |-> "recording", timer |-> TRUE, stopEvent |-> FALSE, flows |-> 0, inflight |-> FALSE]

\* the processor as constructed: this.mediaRecorder = null (0), no recorder
NewBulk == [mediaRecorder |-> 0, recorders |-> <<>>]

\* this.mediaRecorder && this.mediaRecorder.state === 'recording'
Recording(b) == b.mediaRecorder # 0 /\ b.recorders[b.mediaRecorder].state = "recording"

\* MediaRecorder.stop(): the recorder is inactive at once, its stop event is
\* queued
MediaRecorderStop(rec) == [rec EXCEPT !.state = "inactive", !.stopEvent = TRUE]

\* the guarded this.mediaRecorder.stop() of stop() and of the 60 s timeout
stopCurrent(b) ==
    IF Recording(b) THEN [b EXCEPT !.recorders[b.mediaRecorder] = MediaRecorderStop(@)] ELSE b

\* mediaRecorder.onstop: processFullRecording(audioBlob) begins
onstop(rec) == [rec EXCEPT !.stopEvent = FALSE, !.flows = @ + 1, !.inflight = TRUE]

\* the processor as constructed, and the values before any frame
\* starting: startRealTimeAnalysis calls suspended at getUserMedia; stopped
\* (history): stop() has returned and startRealTimeAnalysis was not called since
NewProcessor ==
    [isRecording |-> FALSE, lastFrequencyData |-> NoFrequencyData, frameRequests |-> 0,
     starting |-> 0, stopped |-> FALSE]
NoFeatures == extractRealTimeFeatures(<<0, 0>>, <<128, 128>>, NoFrequencyData, 0)
NoCues == [detected |-> FALSE, urgency |-> FALSE, authority |-> FALSE, socialProof |-> FALSE,
           reciprocity |-> FALSE, commitment |-> FALSE, liking |-> FALSE, confidence |-> 0,
           timestamp |-> 0]

\* analyzeCallCharacteristics: the detection logic on the window's totals
IsCall_AtLeast(totalEnergy, varianceCount, samples) ==
    ~Lt(Frac(totalEnergy, samples), 50, 1) /\ Gt(Frac(varianceCount, samples), 3, 10)
IsCall(totalEnergy, varianceCount, samples) ==
    Gt(Frac(totalEnergy, samples), 50, 1) /\ Gt(Frac(varianceCount, samples), 3, 10)
CallCharacteristics(totalEnergy, varianceCount, samples) ==
    LET isCall == IsCall(totalEnergy, varianceCount, samples)
        \* 0.5 + varianceRatio * 0.4
        raised == Frac(5 * samples + 4 * varianceCount, 10 * samples)
    IN [isCall |-> isCall,
        confidence |-> IF isCall THEN (IF Gt(raised, 9, 10) THEN Frac(9, 10) ELSE raised)
                       ELSE Frac(1, 10),
        participantCount |-> IF isCall THEN Max(2, totalEnergy \div (samples * 30)) ELSE 1]
\* the promise while the window is not complete
Unresolved == [isCall |-> FALSE, confidence |-> Zero, participantCount |-> 0]
NewSampling == [samples |-> 0, totalEnergy |-> 0, varianceCount |-> 0, lastEnergy |-> 0]

\* audioBufferToWav; a sample is held in units of 1 / 0x8000
Clamp(v) == Max(-32768, Min(32768, v))
Trunc(n, d) == IF n >= 0 THEN n \div d ELSE -((-n) \div d)
Int16(x) == ((x + 32768) % 65536) - 32768
\* the value setInt16 stores for the sample v
PCM16(v) == Int16(IF Clamp(v) < 0 THEN Trunc(Clamp(v) * 32768, 32768)
                  ELSE Trunc(Clamp(v) * 32767, 32768))
\* DataView setters, little-endian
Uint8(x) == <<x % 256>>
Uint16LE(x) == <<x % 256, (x \div 256) % 256>>
Uint32LE(x) == <<x % 256, (x \div 256) % 256, (x \div 65536) % 256, (x \div 16777216) % 256>>
Int16LE(x) == Uint16LE((x + 65536) % 65536)
DataSize_Frames(length, numberOfChannels) == length * 2
DataSize(length, numberOfChannels) == length * numberOfChannels * 2
audioBufferToWav(b) ==
    LET length == Len(b.channels[1])
        numberOfChannels == Len(b.channels)
        header == <<82, 73, 70, 70>> \o Uint32LE(36 + DataSize(length, numberOfChannels))
                  \o <<87, 65, 86, 69>> \o <<102, 109, 116, 32>>
                  \o Uint32LE(16) \o Uint16LE(1) \o Uint16LE(numberOfChannels)
                  \o Uint32LE(b.sampleRate) \o Uint32LE(b.sampleRate * numberOfChannels * 2)
                  \o Uint16LE(numberOfChannels * 2) \o Uint16LE(16)
                  \o <<100, 97, 116, 97>> \o Uint32LE(DataSize(length, numberOfChannels))
        Word(j) == PCM16(b.channels[(j % numberOfChannels) + 1][(j \div numberOfChannels) + 1])
    IN [k \in 1 .. 44 + length * numberOfChannels * 2 |->
           IF k <= 44 THEN header[k]
           ELSE Int16LE(Word((k - 45) \div 2))[((k - 45) % 2) + 1]]

\* ------------------------------------------------- popup
\* updateRiskScore: the text, level and class it shows
updateRiskScore_Above80(s) ==
    IF s > 80 THEN [text |-> s, level |-> "CRITICAL", className |-> "risk-critical"]
    ELSE IF s >= 60 THEN [text |-> s, level |-> "HIGH", className |-> "risk-high"]
    ELSE IF s >= 30 THEN [text |-> s, level |-> "MEDIUM", className |-> "risk-medium"]
    ELSE [text |-> s, level |-> "LOW", className |-> "risk-low"]
updateRiskScore(s) ==
    IF s >= 80 THEN [text |-> s, level |-> "CRITICAL", className |-> "risk-critical"]
    ELSE IF s >= 60 THEN [text |-> s, level |-> "HIGH", className |-> "risk-high"]
    ELSE IF s >= 30 THEN [text |-> s, level |-> "MEDIUM", className |-> "risk-medium"]
    ELSE [text |-> s, level |-> "LOW", className |-> "risk-low"]

\* the analysis components when nothing has been handed to them
Undefined == "undefined"
IdleRisk == features = Undefined /\ persuasionCues = Undefined
IdlePopup == score = Undefined
IdleProcessor == processor = Undefined /\ frame = Undefined
IdleWav == buffer = Undefined
IdleDetect == sampling = Undefined
IdleWeb == bulk = Undefined /\ analyzer = Undefined
IdleAnalysis == IdleRisk /\ IdlePopup /\ IdleProcessor /\ IdleWav /\ IdleDetect /\ IdleWeb

\* ------------------------------------------------- SimpleAudioProcessor
\* live tracks are counted up to the two getUserMedia() streams of one start
TrackCap == 2
Acquire(n) == IF n < TrackCap THEN n + 1 ELSE TrackCap

\* the processor as constructed: no recorder, not recording, no interval
NewAudioProcessor == [mediaRecorder |-> "null", isRecording |-> FALSE, intensityInterval |-> FALSE]
NoMedia == [liveTracks |-> 0]

\* the then-callback of startVoiceIntensityMonitoring: nodes and interval set
MonitoringGranted(ap) == [ap EXCEPT !.intensityInterval = TRUE]

\* startRecording after getUserMedia: a new MediaRecorder replaces
\* this.mediaRecorder and is started; isRecording = true
startRecording(ap) == [ap EXCEPT !.mediaRecorder = "recording", !.isRecording = TRUE]

\* stopRecording: stop the recorder when recording, clear the interval
stopRecording(ap) ==
    IF ap.mediaRecorder # "null" /\ ap.isRecording
    THEN [mediaRecorder |-> "inactive", isRecording |-> FALSE, intensityInterval |-> FALSE]
    ELSE [ap EXCEPT !.intensityInterval = FALSE]

\* the browser objects after both getUserMedia() requests of a start were
\* granted: two more live tracks
Granted(m) == [liveTracks |-> Acquire(Acquire(m.liveTracks))]

\* ------------------------------------------------- initial states
\* the background service worker as constructed
InitBackground ==
    /\ sessionId = generateSessionId
    /\ websocket = Null
    /\ orphans = EmptyBag
    /\ isConnected = FALSE
    /\ reconnectAttempts = 0
    /\ timers = EmptyBag
    /\ isActive = FALSE
    /\ calls = [cfg |-> 0, mic |-> 0]
    /\ relayed = <<>>
    /\ execSinceOpen = 0
    /\ closesSinceOpen = 0
    /\ unexpectedSinceOpen = 0
    /\ last = Step("init", "none", "none", Null)
    /\ installed = FALSE
    /\ audioProcessor = NewAudioProcessor
    /\ media = NoMedia

Init ==
    /\ InitBackground
    /\ IdleAnalysis

\* connect(): new WebSocket(wsUrl) replaces this.websocket
connect ==
    /\ websocket' = NewWebSocket
    /\ orphans' = orphans (+) Orphaned(websocket)

\* disconnect(): close this.websocket and forget it; isConnected = false
disconnect(ws) ==
    /\ websocket' = Null
    /\ orphans' = orphans (+) Orphaned(close(ws))
    /\ isConnected' = FALSE
    /\ timers' = MarkStale(timers)

\* websocket.onopen, fired on the socket t
OnOpen(t) ==
    /\ t[2].readyState = "CONNECTING"
    /\ LET opened == [t[2] EXCEPT !.readyState = "OPEN", !.opened = TRUE]
           ws == IF t[1] = "current" THEN opened ELSE websocket
           after == sendMessage(ws, Message("session_start"))
       IN /\ websocket' = after
          /\ orphans' = IF t[1] = "current" THEN orphans
                        ELSE (orphans (-) SetToBag({t[2]})) (+) SetToBag({opened})
          /\ last' = Step("open", IF CanTransmit(ws) THEN "sent" ELSE "warned", t[1],
                          IF t[1] = "current" THEN after ELSE opened)
    /\ isConnected' = TRUE
    /\ reconnectAttempts' = 0
    /\ execSinceOpen' = 0
    /\ closesSinceOpen' = 0
    /\ unexpectedSinceOpen' = 0
    /\ UNCHANGED <<sessionId, timers, isActive, calls>>
    /\ UNCHANGED <<installed, captureVars, analysisVars>>
    /\ NoRelay

\* the close event of the socket t: websocket.onerror (when the connection
\* failed) and websocket.onclose, which calls attemptReconnect()
OnClose(t) ==
    /\ IsLive(t[2])
    /\ LET cause == IF t[2].readyState = "CLOSING"
                    THEN (IF t[2].opened THEN "disconnect_open" ELSE "disconnect_connecting")
                    ELSE "unexpected"
       IN /\ websocket' = IF t[1] = "current" THEN [t[2] EXCEPT !.readyState = "CLOSED"]
                          ELSE websocket
          /\ orphans' = IF t[1] = "current" THEN orphans ELSE orphans (-) SetToBag({t[2]})
          /\ isConnected' = FALSE
          /\ IF ShouldReconnect(reconnectAttempts)
             THEN /\ reconnectAttempts' = reconnectAttempts + 1
                  /\ timers' = timers (+) SetToBag({[delay |-> BackoffDelay(reconnectAttempts + 1),
                                                     stale |-> FALSE, cause |-> cause]})
                  /\ last' = Step("close", "scheduled", cause, t[2])
             ELSE /\ UNCHANGED <<reconnectAttempts, timers>>
                  /\ last' = Step("close", "exhausted", cause, t[2])
          /\ unexpectedSinceOpen' = IF cause = "unexpected" THEN Count(unexpectedSinceOpen)
                                    ELSE unexpectedSinceOpen
    /\ closesSinceOpen' = Count(closesSinceOpen)
    /\ UNCHANGED <<sessionId, isActive, calls, execSinceOpen>>
    /\ UNCHANGED <<installed, captureVars, analysisVars>>
    /\ NoRelay

\* the setTimeout callback of attemptReconnect: this.connect(), taken at the
\* point where connect() has read the configuration and creates the socket
TimerFire(tm) ==
    /\ BagIn(tm, timers)
    /\ connect
    /\ timers' = timers (-) SetToBag({tm})
    /\ execSinceOpen' = IF tm.cause = "unexpected" THEN Count(execSinceOpen) ELSE execSinceOpen
    /\ last' = Step("timer", IF tm.stale THEN "stale" ELSE "fresh", tm.delay, Null)
    /\ UNCHANGED <<sessionId, isConnected, reconnectAttempts, isActive, calls, closesSinceOpen,
                   unexpectedSinceOpen>>
    /\ UNCHANGED <<installed, captureVars, analysisVars>>
    /\ NoRelay

\* sendSessionEnd(): guarded by isConnected and websocket, then sendMessage
sendSessionEnd(ws, conn) ==
    IF conn /\ ws # Null THEN sendMessage(ws, Message("session_end")) ELSE ws

\* ------------------------------------------------- CallGuardBackground
\* startProtection up to its first await (getConfig in connect): the
\* isActive guard
StartProtection ==
    /\ ~isActive
    /\ calls.cfg + calls.mic < MaxCalls
    /\ CanRequest
    /\ calls' = [calls EXCEPT !.cfg = @ + 1]
    /\ last' = Step("start", "begun", "none", Null)
    /\ UNCHANGED <<sessionId, chanVars, isActive, histVars>>
    /\ UNCHANGED <<installed, captureVars, analysisVars>>
    /\ NoRelay

\* initializeExtension (onInstalled / onStartup) with protection enabled in
\* the configuration: it enters startProtection like a start_protection
\* request does
InitializeExtension ==
    /\ ~installed
    /\ installed' = TRUE
    /\ ~isActive
    /\ CanRequest
    /\ calls' = [calls EXCEPT !.cfg = @ + 1]
    /\ last' = Step("start", "begun", "install", Null)
    /\ UNCHANGED <<sessionId, chanVars, isActive, histVars>>
    /\ UNCHANGED <<captureVars, analysisVars>>
    /\ NoRelay

\* startProtection resumed in connect(): the socket is created, then the
\* microphone is awaited
StartConnect ==
    /\ calls.cfg > 0
    /\ connect
    /\ calls' = [calls EXCEPT !.cfg = @ - 1, !.mic = @ + 1]
    /\ last' = Step("start", "connect", "none", Null)
    /\ UNCHANGED <<sessionId, isConnected, reconnectAttempts, timers, isActive, histVars>>
    /\ UNCHANGED <<installed, captureVars, analysisVars>>
    /\ NoRelay

\* handleMessage, start_protection: the response sent once startProtection
\* has settled, { success: true, sessionId } or, from the catch, { error }
startResponse_Swallowed(threw) == "active"
startResponse(threw) == IF threw THEN "error" ELSE "active"

\* startProtection resumed after the microphone requests of
\* startVoiceIntensityMonitoring and startRecording, made in the same turn and
\* settled together: granted or rejected; the step remembers the state of the
\* recorder that startRecording replaced
StartMic(granted) ==
    /\ calls.mic > 0
    /\ calls' = [calls EXCEPT !.mic = @ - 1]
    /\ isActive' = (IF granted THEN TRUE ELSE isActive)
    /\ audioProcessor' = IF granted THEN startRecording(MonitoringGranted(audioProcessor))
                         ELSE audioProcessor
    /\ media' = IF granted THEN Granted(media) ELSE media
    /\ last' = Step("start", startResponse(~granted),
                    IF granted THEN audioProcessor.mediaRecorder ELSE "none", Null)
    /\ UNCHANGED <<sessionId, chanVars, histVars, installed, analysisVars>>
    /\ NoRelay

\* stopProtection: stopRecording(), sendSessionEnd(), disconnect(),
\* isActive = false
StopProtection ==
    /\ isActive
    /\ audioProcessor' = stopRecording(audioProcessor)
    /\ LET ended == sendSessionEnd(websocket, isConnected)
       IN /\ disconnect(ended)
          /\ last' = Step("stop", IF ended # websocket THEN "end_sent" ELSE "no_end",
                          websocket.readyState, close(ended))
    /\ isActive' = FALSE
    /\ UNCHANGED <<sessionId, reconnectAttempts, calls, histVars>>
    /\ UNCHANGED <<installed, media, analysisVars>>
    /\ NoRelay

\* testBackendConnection: connect(), read isConnected, disconnect(), taken at
\* the point where connect() has read the configuration
TestConnection ==
    /\ CanRequest
    /\ websocket' = Null
    /\ orphans' = (orphans (+) Orphaned(websocket)) (+) Orphaned(close(NewWebSocket))
    /\ isConnected' = FALSE
    /\ timers' = MarkStale(timers)
    /\ last' = Step("test", IF isConnected THEN "connected" ELSE "not_connected", "none", Null)
    /\ UNCHANGED <<sessionId, reconnectAttempts, isActive, calls, histVars>>
    /\ UNCHANGED <<installed, captureVars, analysisVars>>
    /\ NoRelay

\* number of risk_score / audio_chunk messages in a socket's log
UserSent(log) == Cardinality({i \in 1 .. Len(log) : log[i].type \in {"risk_score", "audio_chunk"}})

\* the connected-guard of sendAudioChunk / sendRiskScore
SendGuardThrows(conn, ws) == ~conn \/ ws = Null

\* sendAudioChunk / sendRiskScore: throw when not connected, else sendMessage
SendOutcome(ws, conn) ==
    IF SendGuardThrows(conn, ws) THEN "threw"
    ELSE IF CanTransmit(ws) THEN "sent" ELSE "warned"

Send(type, op) ==
    /\ UserSent(websocket.sent) < MaxSent
    /\ websocket' = IF SendGuardThrows(isConnected, websocket) THEN websocket
                    ELSE sendMessage(websocket, Message(type))
    /\ last' = Step(op, SendOutcome(websocket, isConnected), websocket.readyState, websocket')
    /\ UNCHANGED <<sessionId, orphans, isConnected, reconnectAttempts, timers, isActive,
                   calls, histVars>>
    /\ UNCHANGED <<installed, captureVars, analysisVars>>
    /\ NoRelay

\* CommunicationService.sendAudioChunk
SendAudioChunk == Send("audio_chunk", "sendAudioChunk")

\* handleContentMessage, CALLGUARD_REPORT_ACTIVITY: sendRiskScore while active
ReportActivity == isActive /\ Send("risk_score", "sendRiskScore")

\* JSON.parse(event.data): throws a SyntaxError, or returns the parsed value
JSONparse(p) ==
    IF p.kind = "garbage" THEN [threw |-> TRUE, value |-> "none"]
    ELSE [threw |-> FALSE, value |-> p]

\* handleIncomingMessage: the switch on message.type and the three handlers,
\* as the list of chrome.runtime.sendMessage calls made
handleIncomingMessage_FallThrough(m) ==
    IF m.type = "risk_alert"
    THEN <<[type |-> "risk_alert", data |-> m.data], [type |-> "session_update", data |-> m.data]>>
    ELSE IF m.type = "session_update" THEN <<[type |-> "session_update", data |-> m.data]>>
    ELSE IF m.type = "full_report_ready" THEN <<[type |-> "full_report_ready", data |-> m.data]>>
    ELSE <<>>
handleIncomingMessage(m) ==
    IF m.type = "risk_alert" THEN <<[type |-> "risk_alert", data |-> m.data]>>
    ELSE IF m.type = "session_update" THEN <<[type |-> "session_update", data |-> m.data]>>
    ELSE IF m.type = "full_report_ready" THEN <<[type |-> "full_report_ready", data |-> m.data]>>
    ELSE <<>>

\* websocket.onmessage: parse and dispatch inside try / catch; reading
\* message.type of null throws a TypeError, caught like the SyntaxError
onmessage(p) ==
    IF JSONparse(p).threw THEN [relay |-> <<>>, res |-> "parse_error"]
    ELSE IF JSONparse(p).value.kind = "null" THEN [relay |-> <<>>, res |-> "type_error"]
    ELSE [relay |-> handleIncomingMessage(JSONparse(p).value),
          res |-> IF JSONparse(p).value.type \in HandledTypes THEN "handled" ELSE "unknown"]

\* a frame arrives on the open socket t
Receive(t, p) ==
    /\ t[2].readyState = "OPEN"
    /\ relayed' = onmessage(p).relay
    /\ last' = Step("message", onmessage(p).res, p, Null)
    /\ UNCHANGED <<sessionId, chanVars, isActive, calls, histVars>>
    /\ UNCHANGED <<installed, captureVars, analysisVars>>

Lifecycle ==
    \/ \E t \in Targets : OnOpen(t)
    \/ \E t \in Targets : OnClose(t)
    \/ \E tm \in BagToSet(timers) : TimerFire(tm)
    \/ StartProtection
    \/ StartConnect
    \/ \E granted \in BOOLEAN : StartMic(granted)
    \/ StopProtection
    \/ TestConnection

Next ==
    \/ Lifecycle
    \/ SendAudioChunk
    \/ ReportActivity

\* the channel and its orchestrator with outbound traffic
Spec == Init /\ [][Next]_vars

\* protection periods with their traffic: session_start on open, audio_chunk
\* and risk_score while connected, session_end on stop, reconnects between
NextSession ==
    \/ \E t \in Targets : OnOpen(t)
    \/ \E t \in Targets : OnClose(t)
    \/ \E tm \in BagToSet(timers) : TimerFire(tm)
    \/ StartProtection
    \/ StartConnect
    \/ StartMic(TRUE)
    \/ StopProtection
    \/ ReportActivity

SpecSession == Init /\ [][NextSession]_vars

\* the channel and its orchestrator alone
SpecChannel == Init /\ [][Lifecycle]_vars

NextInbound ==
    \/ Lifecycle
    \/ \E t \in Targets, p \in Payloads : Receive(t, p)

\* the channel and its orchestrator with inbound traffic
SpecInbound == Init /\ [][NextInbound]_vars

NextCapture ==
    \/ Lifecycle
    \/ InitializeExtension

\* the orchestrator and its audio capture, with the install / startup event
SpecCapture == Init /\ [][NextCapture]_vars

\* ------------------------------------------------- audio analysis
bgVars == <<sessionId, chanVars, isActive, calls, histVars, installed, captureVars>>

\* the inputs handed to the scorer: feature values on either side of each
\* threshold, with every combination of the six cue flags
ThresholdFeatures ==
    {[NoFeatures EXCEPT !.spectralFlux = Sqrt(Frac(flux2, 1)), !.rms = Sqrt(Frac(rms2, 100)),
                        !.zeroCrossingRate = Frac(zcr, 100)] :
        flux2 \in {0, 2500, 2501}, rms2 \in {0, 64, 65}, zcr \in {0, 30, 31}}
CueSets ==
    {[NoCues EXCEPT !.detected = u \/ a \/ sp \/ r \/ c \/ l, !.urgency = u, !.authority = a,
                    !.socialProof = sp, !.reciprocity = r, !.commitment = c, !.liking = l] :
        u \in BOOLEAN, a \in BOOLEAN, sp \in BOOLEAN, r \in BOOLEAN, c \in BOOLEAN, l \in BOOLEAN}

InitRisk ==
    /\ InitBackground
    /\ features \in ThresholdFeatures
    /\ persuasionCues \in CueSets
    /\ IdlePopup /\ IdleProcessor /\ IdleWav /\ IdleDetect /\ IdleWeb

\* calculateRealTimeRisk(features, persuasionCues)
CalculateRealTimeRisk ==
    /\ last' = Step("calculateRealTimeRisk", calculateRealTimeRisk(features, persuasionCues),
                    "none", Null)
    /\ UNCHANGED <<bgVars, analysisVars>>
    /\ NoRelay

\* the risk scorer on every input
SpecRisk == InitRisk /\ [][CalculateRealTimeRisk]_vars

Scores == 0 .. ScoreCeiling

InitPopup ==
    /\ InitBackground
    /\ score \in Scores
    /\ IdleRisk /\ IdleProcessor /\ IdleWav /\ IdleDetect /\ IdleWeb

\* popup: updateRiskScore(score), then the next score arrives
UpdateRiskScore ==
    /\ last' = Step("updateRiskScore", updateRiskScore(score), score, Null)
    /\ score' \in Scores
    /\ UNCHANGED <<bgVars, features, persuasionCues, processor, frame, buffer, sampling, webVars>>
    /\ NoRelay

\* the popup's risk display on every score
SpecPopup == InitPopup /\ [][UpdateRiskScore]_vars

\* Date.now() readings
Times == 0 .. MaxClock

\* the inputs handed to the detector: feature values on either side of each
\* of its thresholds
CueFeatures ==
    {[NoFeatures EXCEPT !.spectralFlux = Sqrt(Frac(flux2, 1)), !.rms = Sqrt(Frac(rms2, 100)),
                        !.spectralCentroid = Frac(centroid, 100),
                        !.zeroCrossingRate = Frac(zcr, 100),
                        !.spectralRolloff = Frac(rolloff, 100)] :
        flux2 \in {399, 400, 1600, 1601}, rms2 \in {49, 50}, centroid \in {29, 30},
        zcr \in {25, 26}, rolloff \in {70, 71}}

InitCues ==
    /\ InitBackground
    /\ features \in CueFeatures
    /\ persuasionCues = NoCues
    /\ IdlePopup /\ IdleProcessor /\ IdleWav /\ IdleDetect /\ IdleWeb

\* analyzeStream(features), stamped with its Date.now() reading
AnalyzeStream ==
    /\ \E now \in Times : persuasionCues' = analyzeStream(features, now)
    /\ last' = Step("analyzeStream", persuasionCues'.confidence, "none", Null)
    /\ UNCHANGED <<bgVars, features, score, processor, frame, buffer, sampling, webVars>>
    /\ NoRelay

\* the persuasion detector on every input
SpecCues == InitCues /\ [][AnalyzeStream]_vars

\* the feature vectors a tick can work on: values on either side of every
\* threshold of the detector and of the scorer
TickFeatures ==
    {[NoFeatures EXCEPT !.spectralFlux = Sqrt(Frac(flux2, 1)), !.rms = Sqrt(Frac(rms2, 100)),
                        !.spectralCentroid = Frac(centroid, 100),
                        !.zeroCrossingRate = Frac(zcr, 100),
                        !.spectralRolloff = Frac(rolloff, 100)] :
        flux2 \in {0, 399, 400, 1600, 1601, 2500, 2501}, rms2 \in {0, 49, 50, 64, 65},
        centroid \in {0, 29, 30}, zcr \in {0, 26, 30, 31}, rolloff \in {0, 70, 71}}

InitTick ==
    /\ InitBackground
    /\ features \in TickFeatures
    /\ persuasionCues = NoCues
    /\ IdlePopup /\ IdleProcessor /\ IdleWav /\ IdleDetect /\ IdleWeb

\* the body of analyzeFrame on one feature vector: analyzeStream(features),
\* onPersuasionDetected when detected, then calculateRealTimeRisk on the
\* same vector and the cues just found
RealTimeTick ==
    /\ \E now \in Times : persuasionCues' = analyzeStream(features, now)
    /\ last' = Step("analyzeFrame", calculateRealTimeRisk(features, persuasionCues'),
                    IF persuasionCues'.detected THEN "detected" ELSE "none", Null)
    /\ UNCHANGED <<bgVars, features, score, processor, frame, buffer, sampling, webVars>>
    /\ NoRelay

\* one real-time tick on every feature vector
SpecTick == InitTick /\ [][RealTimeTick]_vars

\* what the analyser can hold: byte arrays of one length
Frames ==
    UNION {[frequencyData : [1 .. n -> FrequencyLevels], timeData : [1 .. n -> TimeLevels]] :
              n \in 2 .. MaxBins}
SameLength(fr) == {g \in Frames : Len(g.frequencyData) = Len(fr.frequencyData)}

InitFeatures ==
    /\ InitBackground
    /\ frame \in Frames
    /\ processor = NewProcessor
    /\ features = NoFeatures
    /\ persuasionCues = NoCues
    /\ IdlePopup /\ IdleWav /\ IdleDetect /\ IdleWeb

\* extractRealTimeFeatures(frequencyData, timeData) on the analyser's data
ExtractRealTimeFeatures ==
    /\ \E now \in Times :
          features' = extractRealTimeFeatures(frame.frequencyData, frame.timeData,
                                              processor.lastFrequencyData, now)
    /\ processor' = [processor EXCEPT !.lastFrequencyData = frame.frequencyData]
    /\ last' = Step("extractRealTimeFeatures", "none", "none", Null)
    /\ UNCHANGED <<bgVars, persuasionCues, score, frame, buffer, sampling, webVars>>
    /\ NoRelay

\* the feature extractor on every frame
SpecFeatures == InitFeatures /\ [][ExtractRealTimeFeatures]_vars

\* analyzeFrame while recording: read the analyser, extract the features,
\* detect the cues, score the risk, request the next animation frame; the
\* audio moves on. extractRealTimeFeatures and analyzeStream each read
\* Date.now(), which never runs backwards
Analyze(op, requests, starting) ==
    /\ \E t1 \in Times, t2 \in Times :
          /\ persuasionCues.timestamp <= t1
          /\ t1 <= t2
          /\ features' = extractRealTimeFeatures(frame.frequencyData, frame.timeData,
                                                 processor.lastFrequencyData, t1)
          /\ persuasionCues' = analyzeStream(features', t2)
    /\ processor' = [processor EXCEPT !.isRecording = TRUE,
                                      !.lastFrequencyData = frame.frequencyData,
                                      !.frameRequests = requests,
                                      !.starting = starting]
    /\ last' = Step(op, calculateRealTimeRisk(features', persuasionCues'),
                    IF persuasionCues'.detected THEN "detected" ELSE "none", Null)
    /\ frame' \in SameLength(frame)

\* startRealTimeAnalysis called: up to its await getUserMedia
RequestMicrophone ==
    /\ processor.frameRequests + processor.starting < MaxLoops
    /\ processor' = [processor EXCEPT !.starting = @ + 1, !.stopped = FALSE]
    /\ last' = Step("getUserMedia", "none", "none", Null)
    /\ UNCHANGED <<bgVars, features, persuasionCues, score, frame, buffer, sampling, webVars>>
    /\ NoRelay

\* startRealTimeAnalysis resumed after getUserMedia: rejected, or granted,
\* and then isRecording = true and analyzeRealTime runs the first frame
StartRealTimeAnalysis(granted) ==
    /\ processor.starting > 0
    /\ IF granted
       THEN Analyze("startRealTimeAnalysis", processor.frameRequests + 1, processor.starting - 1)
       ELSE /\ processor' = [processor EXCEPT !.starting = @ - 1]
            /\ last' = Step("startRealTimeAnalysis", "none", "denied", Null)
            /\ UNCHANGED <<features, persuasionCues, frame>>
    /\ UNCHANGED <<bgVars, score, buffer, sampling, webVars>>
    /\ NoRelay

\* the test analyzeFrame makes before it works: isRecording alone, whatever
\* the state of the channel
TickRuns_WhenConnected(recording, connected) == recording /\ connected
TickRuns(recording, connected) == recording

\* a requested animation frame: analyzeFrame returns when not recording
AnalyzeFrame ==
    /\ processor.frameRequests > 0
    /\ IF TickRuns(processor.isRecording, isConnected)
       THEN Analyze("analyzeFrame", processor.frameRequests, processor.starting)
       ELSE /\ processor' = [processor EXCEPT !.frameRequests = @ - 1]
            /\ last' = Step("analyzeFrame", "none", "stopped", Null)
            /\ UNCHANGED <<features, persuasionCues, frame>>
    /\ UNCHANGED <<bgVars, score, buffer, sampling, webVars>>
    /\ NoRelay

\* EnhancedAudioProcessor.stop(): isRecording = false, the recorder stopped
\* when it is recording, nodes disconnected
Stop ==
    /\ processor' = [processor EXCEPT !.isRecording = FALSE, !.stopped = TRUE]
    /\ bulk' = stopCurrent(bulk)
    /\ last' = Step("stop", "none", "none", Null)
    /\ UNCHANGED <<bgVars, features, persuasionCues, score, frame, buffer, sampling, analyzer>>
    /\ NoRelay

\* the loop runs on an analyser of one bin count
LiveFrames == {fr \in Frames : Len(fr.frequencyData) = 2}

InitAnalysis ==
    /\ InitBackground
    /\ frame \in LiveFrames
    /\ processor = NewProcessor
    /\ features = NoFeatures
    /\ persuasionCues = NoCues
    /\ bulk = NewBulk
    /\ analyzer = Undefined
    /\ IdlePopup /\ IdleWav /\ IdleDetect

NextAnalysis ==
    \/ RequestMicrophone
    \/ \E granted \in BOOLEAN : StartRealTimeAnalysis(granted)
    \/ AnalyzeFrame
    \/ Stop

\* the real-time analysis loop of one processor
SpecAnalysis == InitAnalysis /\ [][NextAnalysis]_vars

\* startProtection of the real-time build resumed after await
\* startRealTimeAnalysis: rejected, or the first frame has been analysed and
\* isActive = true; the audio is steady
StartAnalysisProtection(granted) ==
    /\ calls.mic > 0
    /\ calls' = [calls EXCEPT !.mic = @ - 1]
    /\ isActive' = (IF granted THEN TRUE ELSE isActive)
    /\ IF granted
       THEN /\ Analyze("startRealTimeAnalysis", processor.frameRequests + 1, processor.starting)
            /\ frame' = frame
       ELSE /\ last' = Step("startRealTimeAnalysis", "none", "denied", Null)
            /\ UNCHANGED <<features, persuasionCues, processor, frame>>
    /\ UNCHANGED <<sessionId, chanVars, histVars, installed, captureVars>>
    /\ UNCHANGED <<score, buffer, sampling, webVars>>
    /\ NoRelay

\* an animation frame while the audio is steady
SteadyFrame == AnalyzeFrame /\ frame' = frame

\* a silent and a loud analyser state
SteadyFrames == {fr \in LiveFrames : \A k \in 1 .. 2 : fr.frequencyData[k] = fr.frequencyData[1]
                                                       /\ fr.timeData[k] = fr.timeData[1]
                                                       /\ (fr.timeData[1] = 128 <=> fr.frequencyData[1] = 0)}

InitPipeline ==
    /\ InitBackground
    /\ frame \in SteadyFrames
    /\ processor = NewProcessor
    /\ features = NoFeatures
    /\ persuasionCues = NoCues
    /\ IdlePopup /\ IdleWav /\ IdleDetect /\ IdleWeb

NextPipeline ==
    \/ \E t \in Targets : OnOpen(t)
    \/ \E t \in Targets : OnClose(t)
    \/ \E tm \in BagToSet(timers) : TimerFire(tm)
    \/ StartProtection
    \/ StartConnect
    \/ \E granted \in BOOLEAN : StartAnalysisProtection(granted)
    \/ SteadyFrame

\* one protection period of the real-time build: the channel and the local
\* analysis loop
SpecPipeline == InitPipeline /\ [][NextPipeline]_vars

\* startCallRecording resumed after getUserMedia: rejected, or granted, and
\* then a new MediaRecorder replaces this.mediaRecorder, is started and gets
\* its 60 s timeout
StartCallRecording(granted) ==
    /\ Len(bulk.recorders) < MaxCaptures
    /\ bulk' = IF granted
               THEN [mediaRecorder |-> Len(bulk.recorders) + 1,
                     recorders |-> Append(bulk.recorders, NewRecorder)]
               ELSE bulk
    /\ last' = Step("startCallRecording", IF granted THEN "recording" ELSE "error", "none", Null)
    /\ UNCHANGED <<bgVars, features, persuasionCues, score, processor, frame, buffer, sampling,
                   analyzer>>
    /\ NoRelay

\* the timeouts run 60 s after their own start, hence in the order set
NextTimeout(k) ==
    /\ bulk.recorders[k].timer
    /\ \A j \in 1 .. k - 1 : ~bulk.recorders[j].timer

\* the 60 s timeout set for recorder k: stop this.mediaRecorder when it is
\* recording
CeilingTimeout(k) ==
    /\ NextTimeout(k)
    /\ bulk' = stopCurrent([bulk EXCEPT !.recorders[k].timer = FALSE])
    /\ last' = Step("timeout", IF Recording(bulk) THEN "stopped" ELSE "none", "none", Null)
    /\ UNCHANGED <<bgVars, features, persuasionCues, score, processor, frame, buffer, sampling,
                   analyzer>>
    /\ NoRelay

\* recorder k stops on its own: its track ended
TrackEnded(k) ==
    /\ bulk.recorders[k].state = "recording"
    /\ bulk' = [bulk EXCEPT !.recorders[k] = MediaRecorderStop(@)]
    /\ last' = Step("ended", "none", "none", Null)
    /\ UNCHANGED <<bgVars, features, persuasionCues, score, processor, frame, buffer, sampling,
                   analyzer>>
    /\ NoRelay

\* the stop event of recorder k: onstop starts processFullRecording
OnStop(k) ==
    /\ bulk.recorders[k].stopEvent
    /\ bulk' = [bulk EXCEPT !.recorders[k] = onstop(@)]
    /\ last' = Step("onstop", "processing", "none", Null)
    /\ UNCHANGED <<bgVars, features, persuasionCues, score, processor, frame, buffer, sampling,
                   analyzer>>
    /\ NoRelay

\* processFullRecording of recorder k settles: convertToWAV and
\* sendFullRecording have completed, or their error was caught
ProcessFullRecordingSettled(k) ==
    /\ bulk.recorders[k].inflight
    /\ bulk' = [bulk EXCEPT !.recorders[k].inflight = FALSE]
    /\ last' = Step("processFullRecording", "settled", "none", Null)
    /\ UNCHANGED <<bgVars, features, persuasionCues, score, processor, frame, buffer, sampling,
                   analyzer>>
    /\ NoRelay

InitBulk ==
    /\ InitBackground
    /\ bulk = NewBulk
    /\ processor = NewProcessor
    /\ frame = Undefined
    /\ analyzer = Undefined
    /\ IdleRisk /\ IdlePopup /\ IdleWav /\ IdleDetect

NextBulk ==
    \/ \E granted \in BOOLEAN : StartCallRecording(granted)
    \/ \E k \in 1 .. Len(bulk.recorders) : CeilingTimeout(k)
    \/ \E k \in 1 .. Len(bulk.recorders) : TrackEnded(k)
    \/ \E k \in 1 .. Len(bulk.recorders) : OnStop(k)
    \/ \E k \in 1 .. Len(bulk.recorders) : ProcessFullRecordingSettled(k)
    \/ Stop

\* the bulk captures of one EnhancedAudioProcessor
SpecBulk == InitBulk /\ [][NextBulk]_vars

\* ------------------------------------------------- VoiceCallAnalyzer
\* the analyzer as constructed: no recorder, not recording, no chunks, no
\* interval; the start button can be clicked
NewAnalyzer ==
    [mediaRecorder |-> 0, recorders |-> <<>>, requests |-> 0, isRecording |-> FALSE,
     startDisabled |-> FALSE, chunks |-> 0, analysisInterval |-> FALSE, intervals |-> 0,
     flows |-> 0]

\* new MediaRecorder(...) and mediaRecorder.start(1000): recording, its start
\* event queued
StartedRecorder == [state |-> "recording", startEvent |-> TRUE, stopEvent |-> FALSE]

\* startPeriodicAnalysis: setInterval(..., 10000), its id kept in
\* this.analysisInterval
startPeriodicAnalysis(a) == [a EXCEPT !.analysisInterval = TRUE, !.intervals = @ + 1]

\* stopPeriodicAnalysis: clearInterval(this.analysisInterval) when it is set
stopPeriodicAnalysis(a) ==
    IF a.analysisInterval THEN [a EXCEPT !.analysisInterval = FALSE, !.intervals = @ - 1] ELSE a

\* analyzeRecordedAudio: nothing without chunks, else analyzeAudioChunk(blob,
\* false) begins
analyzeRecordedAudio(a) == IF a.chunks = 0 THEN a ELSE [a EXCEPT !.flows = @ + 1]

\* a click on the start button: startCallAnalysis up to its getUserMedia
StartCallAnalysis ==
    /\ ~analyzer.startDisabled
    /\ Len(analyzer.recorders) + analyzer.requests < MaxCaptures
    /\ analyzer' = [analyzer EXCEPT !.requests = @ + 1]
    /\ last' = Step("startCallAnalysis", "requested", "none", Null)
    /\ UNCHANGED <<bgVars, features, persuasionCues, score, processor, frame, buffer, sampling,
                   bulk>>
    /\ NoRelay

\* startCallAnalysis resumed after getUserMedia: rejected, or granted, and
\* then a new MediaRecorder replaces this.mediaRecorder, this.chunks is
\* emptied and the recorder started
CallAnalysisSettled(granted) ==
    /\ analyzer.requests > 0
    /\ analyzer' = IF granted
                   THEN [analyzer EXCEPT !.requests = @ - 1,
                                         !.mediaRecorder = Len(analyzer.recorders) + 1,
                                         !.recorders = Append(@, StartedRecorder),
                                         !.chunks = 0]
                   ELSE [analyzer EXCEPT !.requests = @ - 1]
    /\ last' = Step("startCallAnalysis", IF granted THEN "recording" ELSE "error", "none", Null)
    /\ UNCHANGED <<bgVars, features, persuasionCues, score, processor, frame, buffer, sampling,
                   bulk>>
    /\ NoRelay

\* the start event of recorder k: onstart sets isRecording, disables the
\* start button and starts the periodic analysis
OnStart(k) ==
    /\ analyzer.recorders[k].startEvent
    /\ analyzer' = startPeriodicAnalysis([analyzer EXCEPT !.recorders[k].startEvent = FALSE,
                                                          !.isRecording = TRUE,
                                                          !.startDisabled = TRUE])
    /\ last' = Step("onstart", "none", "none", Null)
    /\ UNCHANGED <<bgVars, features, persuasionCues, score, processor, frame, buffer, sampling,
                   bulk>>
    /\ NoRelay

\* a dataavailable event of recorder k with data: ondataavailable pushes it
DataAvailable(k) ==
    /\ analyzer.recorders[k].state = "recording"
    /\ analyzer' = [analyzer EXCEPT !.chunks = 1]
    /\ last' = Step("ondataavailable", "none", "none", Null)
    /\ UNCHANGED <<bgVars, features, persuasionCues, score, processor, frame, buffer, sampling,
                   bulk>>
    /\ NoRelay

\* a click on the stop button: stopCallAnalysis stops the recorder and the
\* periodic analysis when this.mediaRecorder && this.isRecording
StopCallAnalysis ==
    /\ analyzer' = IF analyzer.mediaRecorder # 0 /\ analyzer.isRecording
                   THEN stopPeriodicAnalysis(
                            [analyzer EXCEPT !.recorders[analyzer.mediaRecorder] =
                                 IF @.state = "recording"
                                 THEN [@ EXCEPT !.state = "inactive", !.stopEvent = TRUE] ELSE @])
                   ELSE analyzer
    /\ last' = Step("stopCallAnalysis",
                    IF analyzer.mediaRecorder # 0 /\ analyzer.isRecording THEN "stopped" ELSE "none",
                    "none", Null)
    /\ UNCHANGED <<bgVars, features, persuasionCues, score, processor, frame, buffer, sampling,
                   bulk>>
    /\ NoRelay

\* recorder k stops on its own: its track ended
RecorderEnded(k) ==
    /\ analyzer.recorders[k].state = "recording"
    /\ analyzer' = [analyzer EXCEPT !.recorders[k].state = "inactive",
                                    !.recorders[k].stopEvent = TRUE]
    /\ last' = Step("ended", "none", "none", Null)
    /\ UNCHANGED <<bgVars, features, persuasionCues, score, processor, frame, buffer, sampling,
                   bulk>>
    /\ NoRelay

\* the stop event of recorder k, after its start event: onstop clears
\* isRecording, enables the start button and calls analyzeRecordedAudio
OnRecorderStop(k) ==
    /\ analyzer.recorders[k].stopEvent
    /\ ~analyzer.recorders[k].startEvent
    /\ analyzer' = analyzeRecordedAudio([analyzer EXCEPT !.recorders[k].stopEvent = FALSE,
                                                         !.isRecording = FALSE,
                                                         !.startDisabled = FALSE])
    /\ last' = Step("onstop", IF analyzer.chunks = 0 THEN "no_audio" ELSE "analyzing", "none", Null)
    /\ UNCHANGED <<bgVars, features, persuasionCues, score, processor, frame, buffer, sampling,
                   bulk>>
    /\ NoRelay

\* a run of a live 10 s interval: analyzeAudioChunk(blob, true) when there
\* are chunks
PeriodicAnalysis ==
    /\ analyzer.intervals > 0
    /\ last' = Step("interval", IF analyzer.chunks > 0 THEN "requested" ELSE "skipped", "none", Null)
    /\ UNCHANGED <<bgVars, analysisVars>>
    /\ NoRelay

\* analyzeAudioChunk(blob, false) settles: results displayed, or the error
\* caught
AnalyzeAudioChunkSettled ==
    /\ analyzer.flows > 0
    /\ analyzer' = [analyzer EXCEPT !.flows = @ - 1]
    /\ last' = Step("analyzeAudioChunk", "settled", "none", Null)
    /\ UNCHANGED <<bgVars, features, persuasionCues, score, processor, frame, buffer, sampling,
                   bulk>>
    /\ NoRelay

InitCall ==
    /\ InitBackground
    /\ analyzer = NewAnalyzer
    /\ bulk = Undefined
    /\ IdleRisk /\ IdlePopup /\ IdleProcessor /\ IdleWav /\ IdleDetect

NextCall ==
    \/ StartCallAnalysis
    \/ \E granted \in BOOLEAN : CallAnalysisSettled(granted)
    \/ \E k \in 1 .. Len(analyzer.recorders) : OnStart(k)
    \/ \E k \in 1 .. Len(analyzer.recorders) : DataAvailable(k)
    \/ StopCallAnalysis
    \/ \E k \in 1 .. Len(analyzer.recorders) : RecorderEnded(k)
    \/ \E k \in 1 .. Len(analyzer.recorders) : OnRecorderStop(k)
    \/ PeriodicAnalysis
    \/ AnalyzeAudioChunkSettled

\* the web page's call analyzer
SpecCall == InitCall /\ [][NextCall]_vars

\* ------------------------------------------------- alert path
\* DEFAULT_CONFIG.riskThresholds, and thresholds update_config can store
DefaultThresholds == [low |-> 30, medium |-> 60, high |-> 80]
Thresholds ==
    {DefaultThresholds} \cup [low : {30}, medium : {50, 80}, high : {50, 80}]

\* scores at, just below and just above every threshold in use
AlertScores == {0, 29, 30, 31, 49, 50, 51, 59, 60, 61, 79, 80, 81, 100}

\* getRiskLevel(score) under the thresholds th
getRiskLevel(s, th) ==
    IF s >= th.high THEN "high" ELSE IF s >= th.medium THEN "medium" ELSE "low"

\* checkRiskThresholds(riskScore) under the thresholds th, as the list of
\* risk_alert messages it sends: showHighRiskAlert or showMediumRiskAlert
checkRiskThresholds_Above(s, th) ==
    IF s > th.high THEN <<[type |-> "risk_alert", level |-> "high"]>>
    ELSE IF s > th.medium THEN <<[type |-> "risk_alert", level |-> "medium"]>>
    ELSE <<>>
checkRiskThresholds(s, th) ==
    IF s >= th.high THEN <<[type |-> "risk_alert", level |-> "high"]>>
    ELSE IF s >= th.medium THEN <<[type |-> "risk_alert", level |-> "medium"]>>
    ELSE <<>>

InitAlert ==
    /\ InitBackground
    /\ score \in AlertScores
    /\ IdleRisk /\ IdleProcessor /\ IdleWav /\ IdleDetect /\ IdleWeb

\* checkRiskThresholds(score) and getRiskLevel(score) under the stored
\* thresholds, then the next score arrives
CheckRiskThresholds ==
    /\ \E th \in Thresholds :
          /\ relayed' = checkRiskThresholds(score, th)
          /\ last' = Step("checkRiskThresholds", getRiskLevel(score, th),
                          [score |-> score, thresholds |-> th], Null)
    /\ score' \in AlertScores
    /\ UNCHANGED <<sessionId, chanVars, isActive, calls, histVars, installed, captureVars>>
    /\ UNCHANGED <<features, persuasionCues, processor, frame, buffer, sampling, webVars>>

\* the alert path on every score
SpecAlert == InitAlert /\ [][CheckRiskThresholds]_vars

\* ------------------------------------------------- voice-intensity monitoring
\* SimpleAudioProcessor with its timers told apart: intensityInterval is the
\* id it holds (0 for null), intervals[k] tells whether the interval with id
\* k is still scheduled, requests counts the getUserMedia promises of
\* startVoiceIntensityMonitoring not yet settled; stopped (history):
\* stopRecording() has returned and monitoring was not started since
NewMonitoring ==
    [mediaRecorder |-> "null", isRecording |-> FALSE, intensityInterval |-> 0,
     intervals |-> <<>>, requests |-> 0, stopped |-> FALSE]

\* if (this.intensityInterval) { clearInterval(...); this.intensityInterval = null }
clearIntensityInterval(ap) ==
    IF ap.intensityInterval # 0
    THEN [ap EXCEPT !.intervals[ap.intensityInterval] = FALSE, !.intensityInterval = 0]
    ELSE ap

InitMonitoring ==
    /\ sessionId = generateSessionId
    /\ websocket = Null
    /\ orphans = EmptyBag
    /\ isConnected = FALSE
    /\ reconnectAttempts = 0
    /\ timers = EmptyBag
    /\ isActive = FALSE
    /\ calls = [cfg |-> 0, mic |-> 0]
    /\ relayed = <<>>
    /\ execSinceOpen = 0
    /\ closesSinceOpen = 0
    /\ unexpectedSinceOpen = 0
    /\ last = Step("init", "none", "none", Null)
    /\ installed = FALSE
    /\ audioProcessor = NewMonitoring
    /\ media = NoMedia
    /\ IdleAnalysis

\* startVoiceIntensityMonitoring(callback): the callback is stored and
\* getUserMedia is requested; the method returns at once
StartVoiceIntensityMonitoring ==
    /\ audioProcessor.requests + Len(audioProcessor.intervals) < MaxMonitors
    /\ audioProcessor' = [audioProcessor EXCEPT !.requests = @ + 1, !.stopped = FALSE]
    /\ last' = Step("startVoiceIntensityMonitoring", "requested", "none", Null)
    /\ UNCHANGED <<sessionId, chanVars, isActive, calls, histVars, installed, media, analysisVars>>
    /\ NoRelay

\* its getUserMedia promise settles: rejected (no handler), or the
\* then-callback builds the nodes and stores a new interval in
\* this.intensityInterval
MonitoringSettled(granted) ==
    /\ audioProcessor.requests > 0
    /\ audioProcessor' =
          IF granted
          THEN [audioProcessor EXCEPT !.requests = @ - 1,
                                      !.intervals = Append(@, TRUE),
                                      !.intensityInterval = Len(audioProcessor.intervals) + 1]
          ELSE [audioProcessor EXCEPT !.requests = @ - 1]
    /\ last' = Step("getUserMedia", IF granted THEN "interval_set" ELSE "rejected", "none", Null)
    /\ UNCHANGED <<sessionId, chanVars, isActive, calls, histVars, installed, media, analysisVars>>
    /\ NoRelay

\* startRecording() after its own getUserMedia was granted
RecordingStarted ==
    /\ audioProcessor' = [audioProcessor EXCEPT !.mediaRecorder = "recording",
                                                !.isRecording = TRUE]
    /\ last' = Step("startRecording", "recording", "none", Null)
    /\ UNCHANGED <<sessionId, chanVars, isActive, calls, histVars, installed, media, analysisVars>>
    /\ NoRelay

\* the interval with id k fires: the voice-intensity callback is invoked
IntensityInterval(k) ==
    /\ audioProcessor.intervals[k]
    /\ last' = Step("intensity", IF audioProcessor.stopped THEN "after_stop" ELSE "monitoring",
                    "none", Null)
    /\ UNCHANGED <<sessionId, chanVars, isActive, calls, histVars, installed, captureVars,
                   analysisVars>>
    /\ NoRelay

\* stopRecording(): the recorder stopped when recording, the interval held
\* in this.intensityInterval cleared
StopRecording ==
    /\ LET ap == IF audioProcessor.mediaRecorder # "null" /\ audioProcessor.isRecording
                 THEN [audioProcessor EXCEPT !.mediaRecorder = "inactive", !.isRecording = FALSE]
                 ELSE audioProcessor
       IN audioProcessor' = [clearIntensityInterval(ap) EXCEPT !.stopped = TRUE]
    /\ last' = Step("stopRecording", "none", "none", Null)
    /\ UNCHANGED <<sessionId, chanVars, isActive, calls, histVars, installed, media, analysisVars>>
    /\ NoRelay

NextMonitoring ==
    \/ StartVoiceIntensityMonitoring
    \/ \E granted \in BOOLEAN : MonitoringSettled(granted)
    \/ RecordingStarted
    \/ \E k \in 1 .. Len(audioProcessor.intervals) : IntensityInterval(k)
    \/ StopRecording

\* the voice-intensity monitoring of one SimpleAudioProcessor
SpecMonitoring == InitMonitoring /\ [][NextMonitoring]_vars

\* the AudioBuffers handed to the encoder
Shapes == {sh \in (1 .. MaxSamples) \X (1 .. MaxSamples) : sh[1] * sh[2] <= MaxSamples}
Buffers ==
    UNION {[sampleRate : SampleRates, channels : [1 .. sh[1] -> [1 .. sh[2] -> SampleValues]]] :
              sh \in Shapes}

InitWav ==
    /\ InitBackground
    /\ buffer \in Buffers
    /\ IdleRisk /\ IdlePopup /\ IdleProcessor /\ IdleDetect /\ IdleWeb

\* audioBufferToWav(buffer)
AudioBufferToWav ==
    /\ last' = Step("audioBufferToWav", audioBufferToWav(buffer), "none", Null)
    /\ UNCHANGED <<bgVars, analysisVars>>
    /\ NoRelay

\* the WAV encoder on every buffer
SpecWav == InitWav /\ [][AudioBufferToWav]_vars

\* one run of the sampling interval of analyzeCallCharacteristics: the byte
\* frequency data sums to energy; at the last sample the interval is cleared
\* and the promise resolved
Sample(energy) ==
    /\ sampling.samples < Window
    /\ sampling' = [samples |-> sampling.samples + 1,
                    totalEnergy |-> sampling.totalEnergy + energy,
                    varianceCount |-> IF sampling.samples > 0
                                         /\ Max(energy - sampling.lastEnergy,
                                                sampling.lastEnergy - energy) > 100
                                      THEN sampling.varianceCount + 1
                                      ELSE sampling.varianceCount,
                    lastEnergy |-> energy]
    /\ last' = IF sampling'.samples >= Window
               THEN Step("sample", CallCharacteristics(sampling'.totalEnergy,
                                       sampling'.varianceCount, sampling'.samples), energy, Null)
               ELSE Step("sample", Unresolved, energy, Null)
    /\ UNCHANGED <<bgVars, features, persuasionCues, score, processor, frame, buffer, webVars>>
    /\ NoRelay

InitDetect ==
    /\ InitBackground
    /\ sampling = NewSampling
    /\ IdleRisk /\ IdlePopup /\ IdleProcessor /\ IdleWav /\ IdleWeb

NextDetect == \E energy \in EnergyLevels : Sample(energy)

\* the call detector over one observation window
SpecDetect == InitDetect /\ [][NextDetect]_vars

\* ------------------------------------------------------------- claims
AllSockets == {websocket} \cup BagToSet(orphans)
Copies(sock) == (IF sock = websocket THEN 1 ELSE 0) + CopiesIn(sock, orphans)
Occurrences(log, type) == Cardinality({i \in 1 .. Len(log) : log[i].type = type})
TimerSet == BagToSet(timers)

\* C1: since the last open event (or since construction) at most 5 automatic
\* reconnects that answer unexpected closes are scheduled, and at most 5 of
\* them are executed: there is never a sixth.
C1_AtMostFiveReconnects ==
    /\ reconnectAttempts <= 5
    /\ execSinceOpen <= 5

\* C2 as stated: once the fifth consecutive unexpected close without an open
\* in between has been handled, no reconnect timer is pending.
C2_NoTimerAfterFifthClose ==
    (last.op = "close" /\ closesSinceOpen = 5 /\ unexpectedSinceOpen = 5)
        => timers = EmptyBag

\* C2 as amended: every close event counts, whether unexpected or asked for by
\* disconnect(); the k-th consecutive close with no open in between schedules
\* one more reconnect when k <= 5 (so the fifth close still schedules the
\* fifth reconnect) and schedules nothing from the sixth on.
C2_SixthCloseSchedulesNothing ==
    [][last'.op = "close" =>
         IF closesSinceOpen' <= 5
         THEN BagCardinality(timers') = BagCardinality(timers) + 1
         ELSE timers' = timers]_vars

C2_Witness ==
    /\ last.op = "close"
    /\ closesSinceOpen = 6
    /\ unexpectedSinceOpen = 6
    /\ timers = EmptyBag

\* C3: a reconnect timer that was pending when disconnect() was called never
\* runs connect().
C3_DisconnectCancelsReconnect == ~(last.op = "timer" /\ last.res = "stale")

\* C4: the close event produced by disconnect() on a channel that was open
\* schedules no automatic reconnect.
C4_DisconnectIsTerminal == \A tm \in TimerSet : tm.cause # "disconnect_open"

\* C5: at most one socket created by the service is connecting or open.
C5_OneLiveSocket ==
    \A a, b \in AllSockets :
        (a.readyState \in {"CONNECTING", "OPEN"} /\ b.readyState \in {"CONNECTING", "OPEN"})
            => (a = b /\ Copies(a) = 1)

\* C6: sendAudioChunk / sendRiskScore called while the channel is not open
\* warn and return: they do not throw, and the message is not kept.
C6_SendNeverThrows ==
    (last.op \in {"sendAudioChunk", "sendRiskScore"} /\ last.arg # "OPEN")
        => (last.res = "warned" /\ websocket = last.sock
            /\ Occurrences(websocket.sent, "risk_score") = 0
            /\ Occurrences(websocket.sent, "audio_chunk") = 0)

\* C7: on every socket whose open event has fired exactly one session_start
\* was transmitted, with the service's session id, as its first frame.
C7_SessionStartOnEveryOpen ==
    \A sock \in AllSockets :
        sock.readyState = "OPEN" =>
            /\ Len(sock.sent) >= 1
            /\ sock.sent[1] = [type |-> "session_start", sessionId |-> sessionId]
            /\ Occurrences(sock.sent, "session_start") = 1

C9_StopSendsSessionEnd ==
    last.op = "stop" =>
        /\ ~isActive
        /\ websocket = Null
        /\ ~isConnected
        /\ last.arg = "OPEN" =>
              /\ last.sock.readyState = "CLOSING"
              /\ Occurrences(last.sock.sent, "session_end") = 1
              /\ last.sock.sent[Len(last.sock.sent)].type = "session_end"

\* C10: the reconnect scheduled by the k-th consecutive close since the last
\* open event (k = 1..5) is delayed by k * 1000 ms, so the delay grows with k
\* and is 1000 ms again for the first close after an open.
C10_LinearBackoff ==
    [][(last'.op = "close" /\ closesSinceOpen' <= 5) =>
         \E tm \in BagToSet(timers') :
             /\ tm.delay = 1000 * closesSinceOpen'
             /\ timers' = timers (+) SetToBag({tm})]_vars

C10_Witness ==
    /\ last.op = "close"
    /\ closesSinceOpen = 5
    /\ \E tm \in TimerSet : tm.delay = 5000

\* C19: at most one MediaRecorder is recording at any time, whatever the
\* interleaving of start_protection requests, the install / startup start
\* and stop_protection: no start begins a recorder while the recorder the
\* processor held until then is still recording.
C19_OneBulkCapture ==
    ~(last.op = "start" /\ last.res = "active" /\ last.arg = "recording")

\* C20: when stopProtection has returned, no MediaStreamTrack obtained by
\* the processor is still live.
C20_StopReleasesMicrophone == last.op = "stop" => media.liveTracks = 0

\* C31: under the stored thresholds a score raises a high alert iff it is at
\* least high, a medium alert iff it is at least medium and below high, and
\* no alert otherwise; at most one alert is raised and its level is
\* getRiskLevel(score)
C31_Alerts(level) == {i \in 1 .. Len(relayed) : relayed[i].level = level}
C31_AlertLevels ==
    last.op = "checkRiskThresholds" =>
        LET s == last.arg.score
            th == last.arg.thresholds
        IN /\ Len(relayed) <= 1
           /\ C31_Alerts("high") # {} <=> s >= th.high
           /\ C31_Alerts("medium") # {} <=> (th.medium <= s /\ s < th.high)
           /\ \A i \in 1 .. Len(relayed) :
                  relayed[i].type = "risk_alert" /\ relayed[i].level = last.res

\* the default thresholds at their boundaries: 80 raises the high alert
C31_Witness ==
    /\ last.op = "checkRiskThresholds"
    /\ last.arg = [score |-> 80, thresholds |-> DefaultThresholds]
    /\ relayed = <<[type |-> "risk_alert", level |-> "high"]>>

\* C32: in one real-time tick urgency and authority are never both flagged,
\* and the score of the tick is at most 75: below the critical level 80, and
\* below the cap of 100, which therefore changes nothing
C32_TickScoreAtMost75 ==
    last.op = "analyzeFrame" =>
        /\ ~(persuasionCues.urgency /\ persuasionCues.authority)
        /\ last.res <= 75
        /\ last.res < 80
        /\ last.res = RiskSum(features, persuasionCues)

\* a tick that reaches 75: urgency and social proof on loud, fast, variable speech
C32_Witness ==
    /\ last.op = "analyzeFrame"
    /\ persuasionCues.urgency /\ persuasionCues.socialProof
    /\ last.res = 75

\* the features of a silent frame: every one of them zero
C33_AllZero(f) ==
    /\ f.spectralCentroid = Zero /\ f.spectralRolloff = Zero /\ f.energy = Zero
    /\ f.zeroCrossingRate = Zero /\ f.spectralFlux = Sqrt(Zero) /\ f.rms = Sqrt(Zero)

\* C33: a tick on a silent frame (all-zero features) flags the authority cue
\* and no other, so detected is true, onPersuasionDetected fires and the
\* score of the tick is 20
C33_SilentFrameFlagsAuthority ==
    (last.op \in {"analyzeFrame", "startRealTimeAnalysis"}
        /\ last.arg \notin {"stopped", "denied"} /\ C33_AllZero(features)) =>
        /\ persuasionCues.authority /\ persuasionCues.detected
        /\ ~persuasionCues.urgency /\ ~persuasionCues.socialProof
        /\ ~persuasionCues.reciprocity /\ ~persuasionCues.commitment /\ ~persuasionCues.liking
        /\ last.arg = "detected"
        /\ last.res = 20

\* a silent frame analysed after another frame, carrying the authority cue
C33_Witness ==
    /\ last.op = "analyzeFrame"
    /\ last.res = 20
    /\ C33_AllZero(features)
    /\ processor.lastFrequencyData = <<0, 0>>
    /\ persuasionCues.authority

\* the frames transmitted on the sockets that are still alive
C34_Transmitted ==
    {websocket.sent[i] : i \in 1 .. Len(websocket.sent)}
        \cup UNION {{o.sent[i] : i \in 1 .. Len(o.sent)} : o \in BagToSet(orphans)}

\* C34: the session id is the one generated at construction at all times,
\* and every session_start, audio_chunk, risk_score and session_end
\* transmitted, on whichever socket and in whichever protection period,
\* carries it
C34_SessionIdFixed ==
    /\ sessionId = generateSessionId
    /\ \A m \in C34_Transmitted : m.sessionId = sessionId

\* a protection period that ends after an unexpected close and a reconnect:
\* the socket it closes has carried session_start, risk_score and
\* session_end, all with the id generated at construction
C34_Witness ==
    /\ last.op = "stop" /\ last.res = "end_sent"
    /\ BagCardinality(timers) > 0
    /\ \E o \in BagToSet(orphans) :
          /\ {o.sent[i].type : i \in 1 .. Len(o.sent)} = {"session_start", "risk_score", "session_end"}
          /\ \A i \in 1 .. Len(o.sent) : o.sent[i].sessionId = generateSessionId

\* C35: the reconnect counter stays in 0..5; only an open event brings it
\* back to 0; connect() (explicit or from the reconnect timer) and
\* disconnect() leave it as it is; and a close handled when the counter is
\* at 5, such as the failure of an explicit connect made after the budget
\* was used up, schedules no reconnect
C35_ReconnectCounter ==
    /\ [](reconnectAttempts \in 0 .. maxReconnectAttempts)
    /\ [][/\ (reconnectAttempts' = 0 /\ reconnectAttempts # 0) => last'.op = "open"
          /\ last'.op \in {"start", "stop", "test", "timer"} =>
                 reconnectAttempts' = reconnectAttempts
          /\ (last'.op = "close" /\ reconnectAttempts = maxReconnectAttempts) =>
                 (timers' = timers /\ reconnectAttempts' = maxReconnectAttempts)]_vars

\* a start_protection whose connect() was made with the budget used up: its
\* socket has failed without opening, and nothing is scheduled
C35_Witness ==
    /\ last.op = "close" /\ last.res = "exhausted" /\ last.arg = "unexpected"
    /\ ~last.sock.opened
    /\ calls.mic = 1
    /\ reconnectAttempts = maxReconnectAttempts
    /\ websocket.readyState = "CLOSED"
    /\ timers = EmptyBag /\ orphans = EmptyBag

\* C36: whenever isBackendConnected() is true the service's current
\* websocket is non-null and OPEN, so a message that passes the
\* connected-guard of sendRiskScore / sendAudioChunk is transmitted
C36_ConnectedMeansOpen ==
    /\ isConnected => (websocket # Null /\ websocket.readyState = "OPEN")
    /\ (last.op \in {"sendAudioChunk", "sendRiskScore"} /\ last.res # "threw")
           => last.res = "sent"

\* C40: a test_connection made while protection is active with its channel
\* connected leaves the session as it was: the current socket is still the
\* open one, isBackendConnected() is still true, and the probe leaves no
\* other live socket behind
C40_ProbeSparesSession ==
    (last.op = "test" /\ last.res = "connected" /\ isActive) =>
        /\ websocket.readyState = "OPEN"
        /\ isConnected
        /\ orphans = EmptyBag

\* C37: when a start_protection has failed at the microphone, after its
\* connect step, and isActive is false, the channel is not connected, not
\* connecting and not scheduled to reconnect, and no intensity timer is set
C37_FailedStartLeavesNothing ==
    (last.op = "start" /\ last.res = "error" /\ ~isActive) =>
        /\ ~isConnected
        /\ ~IsLive(websocket)
        /\ timers = EmptyBag
        /\ ~audioProcessor.intensityInterval

\* C38: a ceiling timeout that stops a capture is that capture's own: the
\* recorder it stops is not one whose own 60 s timer is still to run
C38_CeilingStopsOwnCapture ==
    (last.op = "timeout" /\ last.res = "stopped") =>
        ~bulk.recorders[bulk.mediaRecorder].timer

\* C39: once stopRecording() has returned, and until monitoring is started
\* again, no intensity interval is scheduled and the voice-intensity callback
\* is not invoked
C39_NoIntensityAfterStop ==
    audioProcessor.stopped =>
        /\ \A k \in 1 .. Len(audioProcessor.intervals) : ~audioProcessor.intervals[k]
        /\ ~(last.op = "intensity" /\ last.res = "after_stop")

\* C21: when the microphone request of a start_protection fails, the requester
\* is answered with an error, isActive is left as it was (inactive stays
\* inactive), no track is acquired and no further acquisition is requested
C21_FailedAcquisitionReported ==
    [][(calls'.mic < calls.mic /\ last'.arg = "none")
          => /\ last'.res = "error"
             /\ isActive' = isActive
             /\ media' = media
             /\ audioProcessor' = audioProcessor
             /\ calls'.mic = calls.mic - 1
             /\ calls'.cfg = calls.cfg]_vars

C21_Witness ==
    /\ last.op = "start"
    /\ last.res = "error"
    /\ last.arg = "none"
    /\ ~isActive
    /\ calls.mic = 0
    /\ websocket # Null

\* C22: every bulk capture is finalised by the time its own 60 s ceiling has
\* run: once the timeout set at its start has fired, the capture is no longer
\* recording
C22_CeilingBoundsCapture ==
    \A k \in 1 .. Len(bulk.recorders) :
        ~bulk.recorders[k].timer => bulk.recorders[k].state # "recording"

\* C23: at most one encode / upload flow of a full recording is in flight
C23_OneUploadInFlight == analyzer.flows <= 1

\* C30: a periodic live-chunk request is started only while a capture is
\* recording
C30_PeriodicOnlyWhileRecording ==
    (last.op = "interval" /\ last.res = "requested")
        => \E k \in 1 .. Len(analyzer.recorders) : analyzer.recorders[k].state = "recording"

\* C25: the cue set of a tick carries the timestamp of the feature vector
\* it was computed from
C25_CuesCarryFeatureTimestamp == persuasionCues.timestamp = features.timestamp

\* C27: at most one analysis loop is active per processor: while it is
\* recording at most one frame callback is pending
C27_OneAnalysisLoop == processor.isRecording => processor.frameRequests <= 1

\* C28: after stop() has returned and until startRealTimeAnalysis is called
\* again no callback is invoked and the processor does not record: a frame
\* callback that runs then returns without requesting a frame
C28_NoTicksAfterStop ==
    processor.stopped =>
        /\ ~processor.isRecording
        /\ last.op \in {"startRealTimeAnalysis", "analyzeFrame"} => last.arg \in {"denied", "stopped"}

\* C26: the confidence of every cue set the detector emits lies in [0, 1]
\* (0 .. 10 tenths), for every feature vector
C26_ConfidenceInUnitRange ==
    last.op = "analyzeStream" =>
        /\ persuasionCues.confidence \in 0 .. 10
        /\ persuasionCues.confidence = last.res

\* authority and social proof found together: the largest confidence
C26_Witness ==
    /\ last.op = "analyzeStream"
    /\ persuasionCues.authority
    /\ persuasionCues.socialProof
    /\ persuasionCues.confidence = 6

\* C24: every channel event (open, close or error of a socket, a reconnect
\* that runs, fails or is exhausted) leaves isActive and the analysis loop as
\* they were, and while protection is active the loop is alive and every tick
\* delivers a risk score
C24_ChannelStep == last'.op \in {"open", "close", "timer"}
C24_LoopAlive ==
    isActive =>
        /\ processor.isRecording
        /\ processor.frameRequests >= 1
        /\ last.op = "analyzeFrame" => last.arg # "stopped" /\ last.res \in 0 .. 100
C24_ChannelFailuresSpareLoop ==
    /\ [](C24_LoopAlive)
    /\ [][C24_ChannelStep => UNCHANGED <<isActive, processor, features, persuasionCues, frame>>]_vars

\* a tick that delivers a score after the reconnects are exhausted
C24_Witness ==
    /\ isActive
    /\ ~isConnected
    /\ websocket.readyState = "CLOSED"
    /\ reconnectAttempts = maxReconnectAttempts
    /\ timers = EmptyBag
    /\ last.op = "analyzeFrame"
    /\ last.res \in 0 .. 100

\* C29: a recording's encode-and-upload flow starts only once the recording
\* has stopped, and starts exactly once for a stopped recording: pending as
\* its stop event, or run once, never twice
C29_UploadOnceAfterStop ==
    \A k \in 1 .. Len(bulk.recorders) :
        LET rec == bulk.recorders[k]
        IN /\ rec.flows <= 1
           /\ rec.state = "recording" => ~rec.stopEvent /\ rec.flows = 0 /\ ~rec.inflight
           /\ rec.state = "inactive" => (rec.stopEvent /\ rec.flows = 0) \/ (~rec.stopEvent /\ rec.flows = 1)
           /\ rec.inflight => rec.flows = 1

\* two captures, both stopped, each with its one flow run, the last just settled
C29_Witness ==
    /\ Len(bulk.recorders) = 2
    /\ \A k \in 1 .. 2 : bulk.recorders[k].state = "inactive" /\ bulk.recorders[k].flows = 1
    /\ ~bulk.recorders[1].timer
    /\ bulk.recorders[2].timer
    /\ last.op = "processFullRecording"

\* C11: the score calculateRealTimeRisk returns lies in 0..100, for every
\* combination of the six cue flags and every feature vector.
C11_RiskInRange == last.op = "calculateRealTimeRisk" => last.res \in 0 .. 100

C11_Witness ==
    /\ last.op = "calculateRealTimeRisk"
    /\ features.spectralFlux.sq.num = 2501 /\ features.rms.sq.num = 13
    /\ features.zeroCrossingRate.num = 31
    /\ persuasionCues.urgency /\ persuasionCues.authority /\ persuasionCues.socialProof
    /\ persuasionCues.reciprocity /\ persuasionCues.commitment /\ persuasionCues.liking
    /\ last.res = 100

\* C12: the score is min(100, W), W the sum of the weights of the conditions
\* that hold: spectralFlux > 50 (15), rms > 0.8 (10), zeroCrossingRate > 0.3
\* (10), urgency (25), authority (20), socialProof (15), reciprocity (15),
\* commitment (10), liking (10).
C12_W ==
    (IF features.spectralFlux.sq.num > 2500 * features.spectralFlux.sq.den THEN 15 ELSE 0)
        + (IF 100 * features.rms.sq.num > 64 * features.rms.sq.den THEN 10 ELSE 0)
        + (IF 10 * features.zeroCrossingRate.num > 3 * features.zeroCrossingRate.den THEN 10 ELSE 0)
        + (IF persuasionCues.urgency THEN 25 ELSE 0)
        + (IF persuasionCues.authority THEN 20 ELSE 0)
        + (IF persuasionCues.socialProof THEN 15 ELSE 0)
        + (IF persuasionCues.reciprocity THEN 15 ELSE 0)
        + (IF persuasionCues.commitment THEN 10 ELSE 0)
        + (IF persuasionCues.liking THEN 10 ELSE 0)
C12_WeightedSum ==
    last.op = "calculateRealTimeRisk" => last.res = (IF C12_W > 100 THEN 100 ELSE C12_W)

C12_Witness ==
    /\ last.op = "calculateRealTimeRisk"
    /\ features.spectralFlux.sq.num = 2501 /\ features.rms.sq.num = 13
    /\ features.zeroCrossingRate.num = 31
    /\ persuasionCues.urgency /\ persuasionCues.authority /\ ~persuasionCues.socialProof
    /\ ~persuasionCues.reciprocity /\ ~persuasionCues.commitment /\ ~persuasionCues.liking
    /\ last.res = 80

\* C13: the level shown for a score s in 0..100 is LOW for s < 30, MEDIUM for
\* 30..59, HIGH for 60..79 and CRITICAL for s >= 80, and a score at least as
\* large as the previous one never shows a lower level.
C13_Level(s) ==
    IF s < 30 THEN "LOW" ELSE IF s <= 59 THEN "MEDIUM" ELSE IF s <= 79 THEN "HIGH" ELSE "CRITICAL"
C13_Rank(level) ==
    IF level = "LOW" THEN 0 ELSE IF level = "MEDIUM" THEN 1 ELSE IF level = "HIGH" THEN 2 ELSE 3
C13_LevelMapping ==
    [][last'.op = "updateRiskScore" =>
         /\ last'.res.level = C13_Level(last'.arg)
         /\ (last.op = "updateRiskScore" /\ last.arg <= last'.arg)
                => C13_Rank(last.res.level) <= C13_Rank(last'.res.level)]_vars

C13_Witness ==
    /\ last.op = "updateRiskScore"
    /\ last.arg = 80
    /\ last.res.level = "CRITICAL"

\* C14: the first frame of a session (the frame analysed by a
\* startRealTimeAnalysis on a processor that is not recording) has
\* spectralFlux 0, also when the processor was stopped and started again.
C14_FirstFrameFluxZero ==
    [][(last'.op = "startRealTimeAnalysis" /\ last'.arg # "denied" /\ ~processor.isRecording)
          => features'.spectralFlux.sq.num = 0]_vars

\* C15: on a silent frame (every time-domain byte at the zero level 128,
\* every magnitude 0) of any length from 2 up, the extracted rms,
\* zeroCrossingRate, energy and spectralCentroid are all 0.
Silent(fr) ==
    \A k \in 1 .. Len(fr.frequencyData) : fr.frequencyData[k] = 0 /\ fr.timeData[k] = 128
C15_SilentFeaturesZero ==
    (last.op = "extractRealTimeFeatures" /\ Silent(frame)) =>
        /\ features.rms.sq.num = 0
        /\ features.zeroCrossingRate.num = 0
        /\ features.energy.num = 0
        /\ features.spectralCentroid.num = 0

C15_Witness ==
    /\ last.op = "extractRealTimeFeatures"
    /\ Silent(frame)
    /\ Len(frame.timeData) = 3
    /\ features.rms.sq.num = 0

\* reading the encoder's output: little-endian fields at a byte offset
U16At(bytes, offset) == bytes[offset + 1] + 256 * bytes[offset + 2]
U32At(bytes, offset) == U16At(bytes, offset) + 65536 * U16At(bytes, offset + 2)
S16At(bytes, offset) ==
    IF U16At(bytes, offset) >= 32768 THEN U16At(bytes, offset) - 65536 ELSE U16At(bytes, offset)
FrameCount == Len(buffer.channels[1])
ChannelCount == Len(buffer.channels)

\* C16: for a sample that is the 16-bit value v (v / 32768 with v in
\* -32768..32767) the PCM word written for it, read back, is v.
C16_RoundTripExact ==
    last.op = "audioBufferToWav" =>
        \A i \in 0 .. FrameCount - 1, ch \in 0 .. ChannelCount - 1 :
            buffer.channels[ch + 1][i + 1] \in -32768 .. 32767 =>
                S16At(last.res, 44 + 2 * (i * ChannelCount + ch)) = buffer.channels[ch + 1][i + 1]

\* C17: the output has 44 + 2nc bytes; the data-size field is 2nc, the RIFF
\* size 36 + 2nc, the block align 2c, the byte rate sampleRate * 2c; sample i
\* of channel ch is the word at offset 44 + 2(ic + ch), and every word lies
\* in -32768..32767.
C17_ContainerLayout ==
    last.op = "audioBufferToWav" =>
        /\ Len(last.res) = 44 + 2 * FrameCount * ChannelCount
        /\ U32At(last.res, 40) = 2 * FrameCount * ChannelCount
        /\ U32At(last.res, 4) = 36 + 2 * FrameCount * ChannelCount
        /\ U16At(last.res, 32) = 2 * ChannelCount
        /\ U32At(last.res, 28) = buffer.sampleRate * 2 * ChannelCount
        /\ \A i \in 0 .. FrameCount - 1, ch \in 0 .. ChannelCount - 1 :
              /\ S16At(last.res, 44 + 2 * (i * ChannelCount + ch))
                     = PCM16(buffer.channels[ch + 1][i + 1])
              /\ S16At(last.res, 44 + 2 * (i * ChannelCount + ch)) \in -32768 .. 32767

C17_Witness ==
    /\ last.op = "audioBufferToWav"
    /\ FrameCount = 2 /\ ChannelCount = 2
    /\ buffer.channels[1] # buffer.channels[2]
    /\ Len(last.res) = 52

\* C18: every sample adds its energy to the total and counts a jump of more
\* than 100 from the previous sample; after the 30th the call is declared
\* iff the average energy exceeds 50 and more than 0.3 of the 30 samples
\* were jumps; then confidence is min(0.9, 0.5 + 0.4 * ratio) and
\* participants max(2, floor(average / 30)), else 0.1 and 1.
C18_Jump(e, previous) == e - previous > 100 \/ previous - e > 100
C18_Active == sampling.totalEnergy > 50 * 30 /\ 10 * sampling.varianceCount > 3 * 30
C18_CallDetection ==
    [][last'.op = "sample" =>
         /\ sampling'.totalEnergy = sampling.totalEnergy + last'.arg
         /\ sampling'.varianceCount = sampling.varianceCount
                + (IF sampling.samples > 0 /\ C18_Jump(last'.arg, sampling.lastEnergy) THEN 1 ELSE 0)
         /\ sampling'.samples = 30 =>
               /\ last'.res.isCall = C18_Active'
               /\ C18_Active' =>
                     /\ 300 * last'.res.confidence.num
                            = (IF 150 + 4 * sampling'.varianceCount > 270 THEN 270
                               ELSE 150 + 4 * sampling'.varianceCount) * last'.res.confidence.den
                     /\ last'.res.participantCount
                            = (IF sampling'.totalEnergy \div 900 > 2
                               THEN sampling'.totalEnergy \div 900 ELSE 2)
               /\ ~C18_Active' =>
                     /\ 10 * last'.res.confidence.num = last'.res.confidence.den
                     /\ last'.res.participantCount = 1]_vars

C18_Witness ==
    /\ last.op = "sample"
    /\ sampling.samples = 30
    /\ sampling.totalEnergy = 60 * 30
    /\ sampling.varianceCount = 12
    /\ last.res = [isCall |-> TRUE, confidence |-> [num |-> 33, den |-> 50], participantCount |-> 2]
====
